---------------------------- MODULE Spec2Model ----------------------------
(***************************************************************************)
(* The consistent-hashing ring of src/consistent_hashing.py                *)
(* (class ConsistentHashRing): the position -> node mapping `ring`, the    *)
(* ordered list `sorted_keys`, the active set `nodes`, and the operations  *)
(* add_node, remove_node and get_node.                                     *)
(* The ring class of src/simple_hashing.py is the variable `simple`, and   *)
(* its StorageService the variable `storage`; the threads `mut` and `rd`   *)
(* run add_node / remove_node and get_node one statement at a time.        *)
(*                                                                         *)
(* HashFunction.hash (SHA-1, first 8 bytes) is an uninterpreted function:  *)
(* the hash of every virtual-node key is drawn once, at construction, from *)
(* the position space and never changes; collisions are allowed.  A lookup *)
(* key enters get_node only through hash_func.hash(key), so a lookup key   *)
(* is given by its hash value, and every hash value is tried.              *)
(***************************************************************************)
EXTENDS Integers, Sequences, FiniteSets, TLC

\* ------------------------------------------------------------- bounds
\* Largest ring position of the model (the code's space is 0 .. 2^64 - 1).
MaxPos == 2
\* The calls of add_node and remove_node the mutating thread makes.
MaxCalls == 2
\* write is not taken when the service holds this many items.
MaxStored == 2
\* add_node is not taken when it would make sorted_keys longer than this
\* (repeated add_node calls of one node make the list grow without limit).
MaxLen == 4

\* The node names of the model, and the replica counts a ring is built with.
NodeIds == {"Node_A", "Node_B", "Node_C"}
ReplicaCounts == {1, 2}
Pos == 0 .. MaxPos

\* The values written to the storage service.
Values == {"v1", "v2"}

\* What a call of get_node can produce besides a node name.
NoneVal == "None"
KeyError == "KeyError"
IndexError == "IndexError"

VARIABLES
    replicas,     \* self.replicas, fixed at construction
    hash_func,    \* hash of the virtual-node key f"{node}#{i}", as hash_func[node][i]
    ring,         \* self.ring: position -> node name
    sorted_keys,  \* self.sorted_keys
    nodes,        \* self.nodes
    last,         \* the last call: [op, arg, result]
    prev,         \* ring state when the last call started
    simple,       \* a ring of src/simple_hashing.py: [ring, sorted_keys, nodes]
    sprev,        \* state of `simple` when the last call started
    clean,        \* no add_node call so far named a node that was active
    mut,          \* the thread calling add_node / remove_node: [pc, op, node, i, calls]
    rd,           \* the thread calling get_node: [pc, hash_val, idx, ok, result]
    storage       \* StorageService.storage: node -> list of <<key, value>>

\* The two threads of the interleaved specification, and the service.
threads == <<mut, rd>>
service == <<storage>>

\* What the specification of the ring of src/consistent_hashing.py alone
\* leaves as it is.
others == <<simple, sprev, clean, threads, service>>

vars == <<replicas, hash_func, ring, sorted_keys, nodes, last, prev, others>>

\* The three fields of a ring as one value.
State(r, s, n) == [ring |-> r, sorted_keys |-> s, nodes |-> n]
Cur == State(ring, sorted_keys, nodes)
EmptyRing == State(<<>>, <<>>, {})

\* ------------------------------------------------------------- bisect
RECURSIVE bisect_left_loop(_, _, _, _)
bisect_left_loop(a, x, lo, hi) ==
    IF lo < hi
    THEN LET mid == (lo + hi) \div 2
         IN  IF a[mid + 1] < x
             THEN bisect_left_loop(a, x, mid + 1, hi)
             ELSE bisect_left_loop(a, x, lo, mid)
    ELSE lo

\* bisect.bisect_left(a, x): 0-based index of the first element >= x.
bisect_left(a, x) == bisect_left_loop(a, x, 0, Len(a))

RECURSIVE bisect_right_loop(_, _, _, _)
bisect_right_loop(a, x, lo, hi) ==
    IF lo < hi
    THEN LET mid == (lo + hi) \div 2
         IN  IF x < a[mid + 1]
             THEN bisect_right_loop(a, x, lo, mid)
             ELSE bisect_right_loop(a, x, mid + 1, hi)
    ELSE lo

\* bisect.bisect_right(a, x): 0-based index after the last element <= x.
bisect_right(a, x) == bisect_right_loop(a, x, 0, Len(a))

\* list.insert(idx, x), idx 0-based.
list_insert(a, idx, x) == SubSeq(a, 1, idx) \o <<x>> \o SubSeq(a, idx + 1, Len(a))

\* list.pop(idx), idx 0-based: the list without that element.
list_pop(a, idx) == SubSeq(a, 1, idx) \o SubSeq(a, idx + 2, Len(a))

\* insort that appends at the end instead of at the sorted place.
insort_appends(a, x) == a \o <<x>>

\* bisect.insort(a, x): insert x after any equal elements.
insort(a, x) == list_insert(a, bisect_right(a, x), x)

\* del d[k]
dict_del(d, k) == [p \in DOMAIN d \ {k} |-> d[p]]

\* d[k] = v
dict_set(d, k, v) == [p \in DOMAIN d \cup {k} |-> IF p = k THEN v ELSE d[p]]

\* ------------------------------------------------------------- add_node
\* One iteration of add_node's loop, for replica ordinal i.
add_vnode(st, h, node, i) ==
    LET hash_val == h[node][i]
    IN  State(dict_set(st.ring, hash_val, node),
              insort(st.sorted_keys, hash_val),
              st.nodes)

RECURSIVE add_loop(_, _, _, _, _)
add_loop(st, h, R, node, i) ==
    IF i = R THEN st ELSE add_loop(add_vnode(st, h, node, i), h, R, node, i + 1)

\* ConsistentHashRing.add_node: the ring after add_node(node).
add_node(st, h, R, node) ==
    add_loop(State(st.ring, st.sorted_keys, st.nodes \cup {node}), h, R, node, 0)

\* ------------------------------------------------------------- remove_node
\* The loop body of remove_node without `del self.ring[hash_val]`: only the
\* list entry is removed.
remove_vnode_keeps_mapping(st, h, node, i) ==
    LET hash_val == h[node][i]
        idx == bisect_left(st.sorted_keys, hash_val)
    IN  State(st.ring,
              IF idx < Len(st.sorted_keys) /\ st.sorted_keys[idx + 1] = hash_val
              THEN list_pop(st.sorted_keys, idx)
              ELSE st.sorted_keys,
              st.nodes)

\* One iteration of remove_node's loop, for replica ordinal i.
remove_vnode(st, h, node, i) ==
    LET hash_val == h[node][i]
        ring1 == IF hash_val \in DOMAIN st.ring
                 THEN dict_del(st.ring, hash_val)
                 ELSE st.ring
        idx == bisect_left(st.sorted_keys, hash_val)
        keys1 == IF idx < Len(st.sorted_keys) /\ st.sorted_keys[idx + 1] = hash_val
                 THEN list_pop(st.sorted_keys, idx)
                 ELSE st.sorted_keys
    IN  State(ring1, keys1, st.nodes)

RECURSIVE remove_loop(_, _, _, _, _)
remove_loop(st, h, R, node, i) ==
    IF i = R THEN st ELSE remove_loop(remove_vnode(st, h, node, i), h, R, node, i + 1)

\* remove_node without its early return for a node that is not active
\* (set.discard in place of the guarded set.remove).
remove_node_unguarded(st, h, R, node) ==
    remove_loop(State(st.ring, st.sorted_keys, st.nodes \ {node}), h, R, node, 0)

\* remove_node whose loop starts at replica ordinal 1 and so leaves the
\* first virtual node in place.
remove_node_skips_first(st, h, R, node) ==
    IF node \notin st.nodes
    THEN st
    ELSE remove_loop(State(st.ring, st.sorted_keys, st.nodes \ {node}), h, R, node, 1)

\* ConsistentHashRing.remove_node: the ring after remove_node(node).
remove_node(st, h, R, node) ==
    IF node \notin st.nodes
    THEN st
    ELSE remove_loop(State(st.ring, st.sorted_keys, st.nodes \ {node}), h, R, node, 0)

\* ------------------------------------------------------------- get_node
\* The last line of get_node, self.ring[self.sorted_keys[idx]], idx 0-based.
ring_at(st, idx) ==
    IF idx >= Len(st.sorted_keys)
    THEN IndexError
    ELSE IF st.sorted_keys[idx + 1] \notin DOMAIN st.ring
         THEN KeyError
         ELSE st.ring[st.sorted_keys[idx + 1]]

\* get_node searching with bisect_right: the first position strictly greater
\* than the key's hash.
get_node_bisect_right(st, hash_val) ==
    IF DOMAIN st.ring = {}
    THEN NoneVal
    ELSE LET idx == bisect_right(st.sorted_keys, hash_val)
         IN  ring_at(st, IF idx = Len(st.sorted_keys) THEN 0 ELSE idx)

\* get_node testing the list, not the mapping, for emptiness.
get_node_tests_sorted_keys(st, hash_val) ==
    IF st.sorted_keys = <<>>
    THEN NoneVal
    ELSE LET idx == bisect_left(st.sorted_keys, hash_val)
         IN  ring_at(st, IF idx = Len(st.sorted_keys) THEN 0 ELSE idx)

\* ConsistentHashRing.get_node for a key whose hash is hash_val: the node
\* returned, NoneVal, or the exception the subscripts of the last line raise.
get_node(st, hash_val) ==
    IF DOMAIN st.ring = {}
    THEN NoneVal
    ELSE LET idx == bisect_left(st.sorted_keys, hash_val)
         IN  ring_at(st, IF idx = Len(st.sorted_keys) THEN 0 ELSE idx)


\* ------------------------------------------------------------- simple_hashing
\* One iteration of the loop of add_node in src/simple_hashing.py.
simple_add_vnode(st, h, node, i) ==
    LET position == h[node][i]
    IN  State(dict_set(st.ring, position, node),
              insort(st.sorted_keys, position),
              st.nodes)

RECURSIVE simple_add_loop(_, _, _, _, _)
simple_add_loop(st, h, R, node, i) ==
    IF i = R
    THEN st
    ELSE simple_add_loop(simple_add_vnode(st, h, node, i), h, R, node, i + 1)

\* simple_hashing.ConsistentHashRing.add_node: nothing for an active node.
simple_add_node(st, h, R, node) ==
    IF node \in st.nodes
    THEN st
    ELSE simple_add_loop(State(st.ring, st.sorted_keys, st.nodes \cup {node}),
                         h, R, node, 0)

\* One iteration of the loop of remove_node in src/simple_hashing.py.
simple_remove_vnode(st, h, node, i) ==
    LET position == h[node][i]
        ring1 == IF position \in DOMAIN st.ring
                 THEN dict_del(st.ring, position)
                 ELSE st.ring
        idx == bisect_left(st.sorted_keys, position)
        keys1 == IF idx < Len(st.sorted_keys) /\ st.sorted_keys[idx + 1] = position
                 THEN list_pop(st.sorted_keys, idx)
                 ELSE st.sorted_keys
    IN  State(ring1, keys1, st.nodes)

RECURSIVE simple_remove_loop(_, _, _, _, _)
simple_remove_loop(st, h, R, node, i) ==
    IF i = R
    THEN st
    ELSE simple_remove_loop(simple_remove_vnode(st, h, node, i), h, R, node, i + 1)

\* simple_hashing.ConsistentHashRing.remove_node.
simple_remove_node(st, h, R, node) ==
    IF node \notin st.nodes
    THEN st
    ELSE simple_remove_loop(State(st.ring, st.sorted_keys, st.nodes \ {node}),
                            h, R, node, 0)

\* simple_hashing.ConsistentHashRing.get_node for a key whose hash is key_pos.
simple_get_node(st, key_pos) ==
    IF DOMAIN st.ring = {}
    THEN NoneVal
    ELSE LET idx == bisect_right(st.sorted_keys, key_pos)
         IN  ring_at(st, IF idx = Len(st.sorted_keys) THEN 0 ELSE idx)

\* ------------------------------------------------------------- the machine
Call(op, arg, result) == [op |-> op, arg |-> arg, result |-> result]

\* A thread that is in no call; `calls` counts the mutating calls made.
MutIdle(calls) == [pc |-> "idle", op |-> NoneVal, node |-> NoneVal, i |-> 0, calls |-> calls]
RdIdle == [pc |-> "idle", hash_val |-> 0, idx |-> 0, ok |-> {}, result |-> NoneVal]

Init ==
    /\ replicas \in ReplicaCounts
    /\ hash_func \in [NodeIds -> [0 .. replicas - 1 -> Pos]]
    /\ ring = <<>>
    /\ sorted_keys = <<>>
    /\ nodes = {}
    /\ last = Call("__init__", NoneVal, NoneVal)
    /\ prev = EmptyRing
    /\ simple = EmptyRing
    /\ sprev = EmptyRing
    /\ clean = TRUE
    /\ mut = MutIdle(0)
    /\ rd = RdIdle
    /\ storage = [n \in NodeIds |-> <<>>]

AddNode(node) ==
    /\ Len(sorted_keys) + replicas <= MaxLen
    /\ LET st == add_node(Cur, hash_func, replicas, node)
       IN  /\ ring' = st.ring
           /\ sorted_keys' = st.sorted_keys
           /\ nodes' = st.nodes
    /\ last' = Call("add_node", node, NoneVal)
    /\ prev' = Cur
    /\ UNCHANGED <<replicas, hash_func>>

RemoveNode(node) ==
    /\ LET st == remove_node(Cur, hash_func, replicas, node)
       IN  /\ ring' = st.ring
           /\ sorted_keys' = st.sorted_keys
           /\ nodes' = st.nodes
    /\ last' = Call("remove_node", node, NoneVal)
    /\ prev' = Cur
    /\ UNCHANGED <<replicas, hash_func>>

GetNode(hash_val) ==
    /\ last' = Call("get_node", hash_val, get_node(Cur, hash_val))
    /\ prev' = Cur
    /\ UNCHANGED <<replicas, hash_func, ring, sorted_keys, nodes>>

Next ==
    \/ \E node \in NodeIds : AddNode(node) /\ UNCHANGED others
    \/ \E node \in NodeIds : RemoveNode(node) /\ UNCHANGED others
    \/ \E hash_val \in Pos : GetNode(hash_val) /\ UNCHANGED others

Spec == Init /\ [][Next]_vars

\* The topology changes alone: add_node and remove_node, no lookups.
NextTopology ==
    \/ \E node \in NodeIds : AddNode(node) /\ UNCHANGED others
    \/ \E node \in NodeIds : RemoveNode(node) /\ UNCHANGED others

SpecTopology == Init /\ [][NextTopology]_vars

\* ------------------------------------------------------------- both classes
\* The same call made on a ring of each class, over the same hash function
\* and replica count.
BothAddNode(node) ==
    /\ AddNode(node)
    /\ simple' = simple_add_node(simple, hash_func, replicas, node)
    /\ sprev' = simple
    /\ clean' = (clean /\ node \notin nodes)
    /\ UNCHANGED <<threads, service>>

BothRemoveNode(node) ==
    /\ RemoveNode(node)
    /\ simple' = simple_remove_node(simple, hash_func, replicas, node)
    /\ sprev' = simple
    /\ UNCHANGED <<clean, threads, service>>

NextBoth ==
    \/ \E node \in NodeIds : BothAddNode(node)
    \/ \E node \in NodeIds : BothRemoveNode(node)

SpecBoth == Init /\ [][NextBoth]_vars

\* ------------------------------------------------------------- two threads
\* One thread calls add_node and remove_node, another calls get_node, on one
\* ring of src/consistent_hashing.py that has no lock.  A step is one
\* statement that reads or updates `nodes`, `ring` or `sorted_keys`.
\* `prev` is the ring state when the mutating call in progress started, and
\* rd.ok collects what get_node returns for rd.hash_val in every ring state
\* between two calls (before or after a whole mutation) that the call of
\* get_node in progress has overlapped.

\* The ring state when the mutating call in progress has returned.
MutAfter ==
    IF mut.op = "add_node"
    THEN add_node(prev, hash_func, replicas, mut.node)
    ELSE remove_node(prev, hash_func, replicas, mut.node)

RdInCall == rd.pc \in {"test_ring", "bisect", "wrap", "lookup"}

\* rd.ok when a mutation starts that will leave the ring in state `after`.
OkWith(after) ==
    IF RdInCall
    THEN [rd EXCEPT !.ok = rd.ok \cup {get_node(after, rd.hash_val)}]
    ELSE rd

\* The mutating thread after the statements of iteration mut.i of a loop.
MutNextIteration(pc) ==
    IF mut.i + 1 < replicas
    THEN [mut EXCEPT !.pc = pc, !.i = mut.i + 1]
    ELSE MutIdle(mut.calls)

\* add_node(node) is called.
MutCallAddNode(node) ==
    /\ mut.pc = "idle"
    /\ mut.calls < MaxCalls
    /\ Len(sorted_keys) + replicas <= MaxLen
    /\ mut' = [pc |-> "nodes_add", op |-> "add_node", node |-> node, i |-> 0,
               calls |-> mut.calls + 1]
    /\ prev' = Cur
    /\ rd' = OkWith(add_node(Cur, hash_func, replicas, node))
    /\ UNCHANGED <<ring, sorted_keys, nodes, last>>

\* self.nodes.add(node)
NodesAdd ==
    /\ mut.pc = "nodes_add"
    /\ nodes' = nodes \cup {mut.node}
    /\ mut' = [mut EXCEPT !.pc = "ring_set"]
    /\ UNCHANGED <<ring, sorted_keys, last, prev, rd>>

\* self.ring[hash_val] = node
RingSet ==
    /\ mut.pc = "ring_set"
    /\ ring' = dict_set(ring, hash_func[mut.node][mut.i], mut.node)
    /\ mut' = [mut EXCEPT !.pc = "insort"]
    /\ UNCHANGED <<sorted_keys, nodes, last, prev, rd>>

\* bisect.insort(self.sorted_keys, hash_val), and the next iteration or return
Insort ==
    /\ mut.pc = "insort"
    /\ sorted_keys' = insort(sorted_keys, hash_func[mut.node][mut.i])
    /\ mut' = MutNextIteration("ring_set")
    /\ UNCHANGED <<ring, nodes, last, prev, rd>>

\* remove_node(node) is called: `if node not in self.nodes: return`.
MutCallRemoveNode(node) ==
    /\ mut.pc = "idle"
    /\ mut.calls < MaxCalls
    /\ mut' = IF node \notin nodes
              THEN MutIdle(mut.calls + 1)
              ELSE [pc |-> "nodes_remove", op |-> "remove_node", node |-> node,
                    i |-> 0, calls |-> mut.calls + 1]
    /\ prev' = Cur
    /\ rd' = OkWith(remove_node(Cur, hash_func, replicas, node))
    /\ UNCHANGED <<ring, sorted_keys, nodes, last>>

\* self.nodes.remove(node)
NodesRemove ==
    /\ mut.pc = "nodes_remove"
    /\ nodes' = nodes \ {mut.node}
    /\ mut' = [mut EXCEPT !.pc = "ring_del"]
    /\ UNCHANGED <<ring, sorted_keys, last, prev, rd>>

\* if hash_val in self.ring: del self.ring[hash_val]
RingDel ==
    /\ mut.pc = "ring_del"
    /\ LET hash_val == hash_func[mut.node][mut.i]
       IN  ring' = IF hash_val \in DOMAIN ring THEN dict_del(ring, hash_val) ELSE ring
    /\ mut' = [mut EXCEPT !.pc = "keys_pop"]
    /\ UNCHANGED <<sorted_keys, nodes, last, prev, rd>>

\* idx = bisect_left(...); if ...: self.sorted_keys.pop(idx), and the next
\* iteration or return
KeysPop ==
    /\ mut.pc = "keys_pop"
    /\ LET hash_val == hash_func[mut.node][mut.i]
           idx == bisect_left(sorted_keys, hash_val)
       IN  sorted_keys' = IF idx < Len(sorted_keys) /\ sorted_keys[idx + 1] = hash_val
                          THEN list_pop(sorted_keys, idx)
                          ELSE sorted_keys
    /\ mut' = MutNextIteration("ring_del")
    /\ UNCHANGED <<ring, nodes, last, prev, rd>>

\* get_node(key) is called, hash_val being the hash of key.
RdCallGetNode(hash_val) ==
    /\ ~RdInCall
    /\ rd' = [pc |-> "test_ring", hash_val |-> hash_val, idx |-> 0,
              ok |-> IF mut.pc = "idle"
                     THEN {get_node(Cur, hash_val)}
                     ELSE {get_node(prev, hash_val), get_node(MutAfter, hash_val)},
              result |-> NoneVal]
    /\ UNCHANGED <<ring, sorted_keys, nodes, last, prev, mut>>

\* The thread of get_node returns `result`.
RdReturn(result) == rd' = [rd EXCEPT !.pc = "done", !.idx = 0, !.result = result]

\* if not self.ring: return None
TestRing ==
    /\ rd.pc = "test_ring"
    /\ IF DOMAIN ring = {}
       THEN RdReturn(NoneVal)
       ELSE rd' = [rd EXCEPT !.pc = "bisect"]
    /\ UNCHANGED <<ring, sorted_keys, nodes, last, prev, mut>>

\* idx = bisect.bisect_left(self.sorted_keys, hash_val)
Bisect ==
    /\ rd.pc = "bisect"
    /\ rd' = [rd EXCEPT !.pc = "wrap", !.idx = bisect_left(sorted_keys, rd.hash_val)]
    /\ UNCHANGED <<ring, sorted_keys, nodes, last, prev, mut>>

\* if idx == len(self.sorted_keys): idx = 0
Wrap ==
    /\ rd.pc = "wrap"
    /\ rd' = [rd EXCEPT !.pc = "lookup",
                        !.idx = IF rd.idx = Len(sorted_keys) THEN 0 ELSE rd.idx]
    /\ UNCHANGED <<ring, sorted_keys, nodes, last, prev, mut>>

\* return self.ring[self.sorted_keys[idx]]
Lookup ==
    /\ rd.pc = "lookup"
    /\ RdReturn(ring_at(Cur, rd.idx))
    /\ UNCHANGED <<ring, sorted_keys, nodes, last, prev, mut>>

ConcUnchanged == UNCHANGED <<replicas, hash_func, simple, sprev, clean, service>>

NextConc ==
    \/ \E node \in NodeIds : MutCallAddNode(node) /\ ConcUnchanged
    \/ NodesAdd /\ ConcUnchanged
    \/ RingSet /\ ConcUnchanged
    \/ Insort /\ ConcUnchanged
    \/ \E node \in NodeIds : MutCallRemoveNode(node) /\ ConcUnchanged
    \/ NodesRemove /\ ConcUnchanged
    \/ RingDel /\ ConcUnchanged
    \/ KeysPop /\ ConcUnchanged
    \/ \E hash_val \in Pos : RdCallGetNode(hash_val) /\ ConcUnchanged
    \/ TestRing /\ ConcUnchanged
    \/ Bisect /\ ConcUnchanged
    \/ Wrap /\ ConcUnchanged
    \/ Lookup /\ ConcUnchanged

SpecConc == Init /\ [][NextConc]_vars

\* ------------------------------------------------------------- StorageService
\* StorageService of src/simple_hashing.py: its ring is `simple`, built
\* empty, and `storage` holds one dict per node, a dict being the list of its
\* <<key, value>> items in insertion order.  A key is given by its hash.

\* d[key] = value on a dict: in place for a key it holds, else at the end.
items_put(d, key, value) ==
    IF \E j \in 1 .. Len(d) : d[j][1] = key
    THEN [j \in 1 .. Len(d) |-> IF d[j][1] = key THEN <<key, value>> ELSE d[j]]
    ELSE d \o <<<<key, value>>>>

\* The number of items of all dicts of s.
RECURSIVE Stored(_)
Stored(s) ==
    IF DOMAIN s = {}
    THEN 0
    ELSE LET n == CHOOSE x \in DOMAIN s : TRUE
         IN  Len(s[n]) + Stored([x \in DOMAIN s \ {n} |-> s[x]])

\* The loop of remove_node_safe from item j of data_to_move on, over the
\* ring st and the storage s: [storage, result], the result being the
\* exception get_node raises, when it raises, and NoneVal otherwise.
RECURSIVE migrate_loop(_, _, _, _)
migrate_loop(s, st, node_to_remove, j) ==
    IF node_to_remove \notin DOMAIN s \/ j > Len(s[node_to_remove])
    THEN [storage |-> s, result |-> NoneVal]
    ELSE LET key == s[node_to_remove][j][1]
             value == s[node_to_remove][j][2]
             new_node == simple_get_node(st, key)
             s1 == IF new_node \notin DOMAIN s
                   THEN [n \in DOMAIN s \cup {new_node} |->
                            IF n = new_node THEN <<>> ELSE s[n]]
                   ELSE s
         IN  IF new_node \in {KeyError, IndexError}
             THEN [storage |-> s, result |-> new_node]
             ELSE migrate_loop([s1 EXCEPT ![new_node] = items_put(@, key, value)],
                               st, node_to_remove, j + 1)

\* StorageService.remove_node_safe: [ring, storage, result].
remove_node_safe(st, s, h, R, node_to_remove) ==
    IF node_to_remove \notin DOMAIN s
    THEN [ring |-> st, storage |-> s, result |-> KeyError]
    ELSE LET st1 == simple_remove_node(st, h, R, node_to_remove)
             m == migrate_loop(s, st1, node_to_remove, 1)
         IN  IF m.result # NoneVal
             THEN [ring |-> st1, storage |-> m.storage, result |-> m.result]
             ELSE [ring |-> st1,
                   storage |-> [n \in DOMAIN m.storage \ {node_to_remove} |->
                                   m.storage[n]],
                   result |-> NoneVal]

\* StorageService.write: [storage, result].
write(st, s, key, value) ==
    LET node == simple_get_node(st, key)
    IN  IF node \in {KeyError, IndexError}
        THEN [storage |-> s, result |-> node]
        ELSE IF node \notin DOMAIN s
             THEN [storage |-> s, result |-> KeyError]
             ELSE [storage |-> [s EXCEPT ![node] = items_put(@, key, value)],
                   result |-> NoneVal]

StoreUnchanged ==
    UNCHANGED <<replicas, hash_func, ring, sorted_keys, nodes, last, prev, sprev, clean,
                threads>>

\* service.ring.add_node(node)
StoreAddNode(node) ==
    /\ Len(simple.sorted_keys) + replicas <= MaxLen
    /\ simple' = simple_add_node(simple, hash_func, replicas, node)
    /\ UNCHANGED storage

\* service.write(key, value)
Write(key, value) ==
    /\ Stored(storage) < MaxStored
    /\ storage' = write(simple, storage, key, value).storage
    /\ UNCHANGED simple

\* service.remove_node_safe(node_to_remove)
RemoveNodeSafe(node_to_remove) ==
    /\ LET r == remove_node_safe(simple, storage, hash_func, replicas, node_to_remove)
       IN  /\ simple' = r.ring
           /\ storage' = r.storage

NextStore ==
    \/ \E node \in NodeIds : StoreAddNode(node) /\ StoreUnchanged
    \/ \E key \in Pos, value \in Values : Write(key, value) /\ StoreUnchanged
    \/ \E node \in NodeIds : RemoveNodeSafe(node) /\ StoreUnchanged

\* The service over rings of one virtual node per node.
InitStore == Init /\ replicas = 1

SpecStore == InitStore /\ [][NextStore]_vars

\* ------------------------------------------------------------- properties
\* The hash values lookup keys are tried with.
Keys == Pos

Range(s) == {s[i] : i \in 1 .. Len(s)}
StrictlyIncreasing(s) == \A i \in 1 .. Len(s) - 1 : s[i] < s[i + 1]
Min(S) == CHOOSE m \in S : \A x \in S : m <= x
Max(S) == CHOOSE m \in S : \A x \in S : x <= m

\* sorted_keys is strictly increasing and holds exactly the keys of ring.
Consistent(st) ==
    /\ StrictlyIncreasing(st.sorted_keys)
    /\ Range(st.sorted_keys) = DOMAIN st.ring

\* The virtual-node positions of a node.
Positions(node) == {hash_func[node][i] : i \in 0 .. replicas - 1}

\* No two virtual-node keys hash to the same position.
InjectiveHash ==
    \A n1, n2 \in NodeIds : \A i1, i2 \in 0 .. replicas - 1 :
        hash_func[n1][i1] = hash_func[n2][i2] => (n1 = n2 /\ i1 = i2)

\* Owner of the smallest placed position >= hash_val, or of the smallest
\* placed position when there is none.
RefOwner(st, hash_val) ==
    LET atOrAfter == {p \in DOMAIN st.ring : p >= hash_val}
    IN  IF atOrAfter # {}
        THEN st.ring[Min(atOrAfter)]
        ELSE st.ring[Min(DOMAIN st.ring)]

\* C1: whenever the active set is non-empty, get_node of every key returns
\* a member of the active set (it neither raises nor returns None).
C1_OwnershipTotality ==
    nodes # {} => \A k \in Keys : get_node(Cur, k) \in nodes

\* C2: add_node of a node that is already active leaves ring, sorted_keys
\* and nodes as they were.
C2_AddNodeIdempotent ==
    (last.op = "add_node" /\ last.arg \in prev.nodes) => Cur = prev

\* C3: remove_node of an active node, with at least two nodes active, leaves
\* every key that was not mapped to the removed node where it was, and maps
\* every key of the removed node to a node that is still active.
C3_RemoveMovesOnlyOwnKeys ==
    (last.op = "remove_node" /\ last.arg \in prev.nodes
        /\ Cardinality(prev.nodes) >= 2)
    => \A k \in Keys :
           LET before == get_node(prev, k)
               after == get_node(Cur, k)
           IN  /\ before # last.arg => after = before
               /\ before = last.arg => after \in nodes

\* C4: after add_node of a node that was not active, on a ring with a
\* non-empty active set, every key whose get_node result changed resolves
\* to the added node.
C4_AddMovesKeysOnlyToNewNode ==
    (last.op = "add_node" /\ last.arg \notin prev.nodes /\ prev.nodes # {})
    => \A k \in Keys :
           get_node(Cur, k) # get_node(prev, k) => get_node(Cur, k) = last.arg

\* C5: sorted_keys is strictly increasing and its elements are exactly the
\* keys of ring, in every reachable state.
C5_SortedKeysMatchRing == Consistent(Cur)

\* C6: on a state whose sorted_keys is non-empty and consistent with ring,
\* get_node returns the owner of the smallest placed position >= the key's
\* hash, wrapping to the owner of the smallest placed position.
C6_GetNodeIsSuccessorOwner ==
    (sorted_keys # <<>> /\ Consistent(Cur))
    => \A k \in Keys : get_node(Cur, k) = RefOwner(Cur, k)

\* A lookup of a key hashed past every placed position has wrapped to the
\* owner of the smallest position, on a consistent ring of two owners where
\* another key hits a placed position exactly and gets that position's owner.
C6_Witness ==
    /\ last.op = "get_node"
    /\ Consistent(Cur)
    /\ DOMAIN ring # {}
    /\ last.arg > Max(DOMAIN ring)
    /\ last.result = ring[Min(DOMAIN ring)]
    /\ ring[Max(DOMAIN ring)] # ring[Min(DOMAIN ring)]
    /\ get_node(Cur, Max(DOMAIN ring)) = ring[Max(DOMAIN ring)]

\* C7: remove_node of a node that is not active leaves ring, sorted_keys and
\* nodes as they were.
C7_RemoveAbsentIsNoOp ==
    (last.op = "remove_node" /\ last.arg \notin prev.nodes) => Cur = prev

\* remove_node was called for a node that is not active while one of its
\* positions is placed on the ring (by a colliding node) and in sorted_keys.
C7_Witness ==
    /\ last.op = "remove_node"
    /\ last.arg \notin prev.nodes
    /\ Positions(last.arg) \cap DOMAIN ring # {}
    /\ Positions(last.arg) \cap Range(sorted_keys) # {}

\* C8: whenever the active set is empty, get_node of every key returns None.
C8_EmptyRingReturnsNone ==
    nodes = {} => \A k \in Keys : get_node(Cur, k) = NoneVal

\* get_node returned None on a ring emptied after a node was added twice:
\* no node is active and sorted_keys still holds positions.
C8_Witness ==
    /\ last.op = "get_node"
    /\ last.result = NoneVal
    /\ nodes = {}
    /\ sorted_keys # <<>>

\* C9: with no hash collision, every active node owns exactly `replicas`
\* entries of ring, sorted_keys has `replicas` positions for each active
\* node, and no entry belongs to a node that is not active.
C9_ReplicasPerActiveNode ==
    InjectiveHash =>
        /\ \A n \in nodes : Cardinality({p \in DOMAIN ring : ring[p] = n}) = replicas
        /\ Len(sorted_keys) = replicas * Cardinality(nodes)
        /\ \A n \in nodes :
               Cardinality({i \in 1 .. Len(sorted_keys) :
                               sorted_keys[i] \in Positions(n)}) = replicas
        /\ \A p \in DOMAIN ring : ring[p] \in nodes

\* ------------------------------------------------------------- sequences of calls
\* The ring after add_node(node) from the current state.
AfterAdd(st, node) == add_node(st, hash_func, replicas, node)
\* The ring after remove_node(node) from the current state.
AfterRemove(st, node) == remove_node(st, hash_func, replicas, node)

\* A mapping without the entries at the given positions.
Without(d, ps) == [p \in DOMAIN d \ ps |-> d[p]]

\* C17 as stated: from any reachable state where X is not active, add_node(X)
\* followed by remove_node(X) restores ring, sorted_keys and nodes, also when
\* a position of X is already placed by another active node.
C17_AddThenRemoveRestores ==
    \A x \in NodeIds \ nodes : AfterRemove(AfterAdd(Cur, x), x) = Cur

\* C17 amended: add_node(X) then remove_node(X), X not active, restores
\* sorted_keys and nodes, and restores ring except that every position of X
\* that was already a key of ring is deleted; so the whole state is restored
\* exactly when no position of X was placed before.
C17_AddThenRemoveRestoresUnlessCollision ==
    \A x \in NodeIds \ nodes :
        LET back == AfterRemove(AfterAdd(Cur, x), x)
        IN  /\ back.sorted_keys = sorted_keys
            /\ back.nodes = nodes
            /\ back.ring = Without(ring, Positions(x))
            /\ (Positions(x) \cap DOMAIN ring = {}) <=> (back = Cur)

\* remove_node(X) has just undone an add_node(X) on a ring that holds another
\* node: the state before the call is the current state with X added, X is
\* not active, and the current state is the one the add started from.
C17_Witness ==
    /\ last.op = "remove_node"
    /\ last.arg \in prev.nodes
    /\ nodes # {}
    /\ DOMAIN ring # {}
    /\ Positions(last.arg) \cap DOMAIN ring = {}
    /\ prev = AfterAdd(Cur, last.arg)
    /\ Cur = AfterRemove(prev, last.arg)

\* C18 as stated: for distinct nodes A and B that are not active, the two
\* orders of adding them yield the same ring, sorted_keys and nodes.
C18_AddOrderIndependent ==
    \A a, b \in NodeIds \ nodes :
        a # b => AfterAdd(AfterAdd(Cur, a), b) = AfterAdd(AfterAdd(Cur, b), a)

\* C18 amended: the two orders yield the same sorted_keys, the same nodes and
\* the same ring entry at every position that A and B do not share; a shared
\* position is owned by the node added last.  When A and B share no position
\* the states are equal, and so is get_node for every key.
C18_AddOrderIndependentUnlessShared ==
    \A a, b \in NodeIds \ nodes :
        a # b =>
            LET ab == AfterAdd(AfterAdd(Cur, a), b)
                ba == AfterAdd(AfterAdd(Cur, b), a)
                shared == Positions(a) \cap Positions(b)
            IN  /\ ab.sorted_keys = ba.sorted_keys
                /\ ab.nodes = ba.nodes
                /\ DOMAIN ab.ring = DOMAIN ba.ring
                /\ \A p \in DOMAIN ab.ring \ shared : ab.ring[p] = ba.ring[p]
                /\ \A p \in shared : ab.ring[p] = b /\ ba.ring[p] = a
                /\ shared = {} =>
                       /\ ab = ba
                       /\ \A k \in Keys : get_node(ab, k) = get_node(ba, k)

\* Two nodes with no common position have been added to a fresh ring, and
\* the state reached is the one either order of the two calls produces.
C18_Witness ==
    /\ last.op = "add_node"
    /\ last.arg \notin prev.nodes
    /\ \E a \in prev.nodes :
           /\ nodes = {a, last.arg}
           /\ Positions(a) \cap Positions(last.arg) = {}
           /\ prev = AfterAdd(EmptyRing, a)
           /\ Cur = AfterAdd(AfterAdd(EmptyRing, last.arg), a)

\* ------------------------------------------------------------- both classes: properties
\* How often x occurs in the list s.
Count(s, x) == Cardinality({i \in 1 .. Len(s) : s[i] = x})

\* Two replica ordinals of the node hash to position p.
OwnCollision(node, p) ==
    \E i, j \in 0 .. replicas - 1 :
        i # j /\ hash_func[node][i] = p /\ hash_func[node][j] = p

\* remove_node(b) took the ring from `before` to `after`; every position of b
\* that the mapping recorded for another active node is still in the mapping,
\* with that owner, and in the list.
KeepsForeignPositions(before, after, b) ==
    \A p \in Positions(b) :
        (p \in DOMAIN before.ring /\ before.ring[p] # b
            /\ before.ring[p] \in before.nodes)
        => /\ p \in DOMAIN after.ring
           /\ after.ring[p] = before.ring[p]
           /\ p \in Range(after.sorted_keys)

\* C11: remove_node(B), B active, does not delete a position that the
\* mapping records for another active node A which collides with B: the
\* position stays in the mapping, owned by A, and in the list; in both classes.
C11_RemoveKeepsForeignPositions ==
    last.op = "remove_node" =>
        /\ last.arg \in prev.nodes => KeepsForeignPositions(prev, Cur, last.arg)
        /\ last.arg \in sprev.nodes => KeepsForeignPositions(sprev, simple, last.arg)

\* add_node(n) took the ring from `before` to `after`; every position of n
\* that was a key of the mapping, or that two ordinals of n share, is now
\* owned by n and occurs once in the list.
LastWriteWinsOnce(before, after, n) ==
    \A p \in Positions(n) :
        (p \in DOMAIN before.ring \/ OwnCollision(n, p))
        => /\ p \in DOMAIN after.ring
           /\ after.ring[p] = n
           /\ Count(after.sorted_keys, p) = 1

\* C12: when add_node(N) computes a position that is already a key of the
\* mapping, the entry becomes N's and the list holds the position exactly
\* once; in both classes (add_node of src/simple_hashing.py computes nothing
\* for a node that is active).
C12_AddOverwritesWithoutDuplicate ==
    last.op = "add_node" =>
        /\ LastWriteWinsOnce(prev, Cur, last.arg)
        /\ last.arg \notin sprev.nodes => LastWriteWinsOnce(sprev, simple, last.arg)

\* C13: driven by the same calls, none of them an add_node of an active
\* node, the two classes hold the same state and return the same get_node
\* result for every key.
C13_SameLookupPolicy ==
    clean =>
        /\ simple = Cur
        /\ \A k \in Keys : simple_get_node(simple, k) = get_node(Cur, k)

\* Every owner recorded in the mapping of the ring `st` is active.
OwnersActive(st) == \A p \in DOMAIN st.ring : st.ring[p] \in st.nodes

\* C16: in both classes every node recorded as an owner in the mapping is a
\* member of the active set, and after remove_node(X) of an active X no
\* entry of the mapping has value X.
C16_OwnersAreActive ==
    /\ OwnersActive(Cur)
    /\ OwnersActive(simple)
    /\ (last.op = "remove_node" /\ last.arg \in prev.nodes)
       => \A p \in DOMAIN ring : ring[p] # last.arg
    /\ (last.op = "remove_node" /\ last.arg \in sprev.nodes)
       => \A p \in DOMAIN simple.ring : simple.ring[p] # last.arg

\* remove_node(X) has removed an X that owned entries in both rings, after a
\* repeated add of an active node, and both rings still hold entries.
C16_Witness ==
    /\ last.op = "remove_node"
    /\ ~clean
    /\ \E p \in DOMAIN prev.ring : prev.ring[p] = last.arg
    /\ \E p \in DOMAIN sprev.ring : sprev.ring[p] = last.arg
    /\ DOMAIN ring # {}
    /\ DOMAIN simple.ring # {}

\* ------------------------------------------------------------- C14
\* C14: a call of get_node that runs while another thread is inside add_node
\* or remove_node returns what get_node returns on the ring as it was
\* before, or as it is after, a whole mutation it overlapped: it observes
\* no state in the middle of a mutation, so it raises nothing and returns
\* no owner that a ring between two calls would not give.
C14_GetNodeSeesWholeMutations ==
    rd.pc = "done" => rd.result \in rd.ok

\* ------------------------------------------------------------- C15
\* Item <<key, value>> is in dict d.
Holds(d, key, value) == \E j \in 1 .. Len(d) : d[j] = <<key, value>>

\* What C15 says of a call remove_node_safe(X) that takes the storage s
\* to s1 and leaves the ring in state st1.
Migrated(X, s, s1, st1) ==
    /\ X \notin DOMAIN s1
    /\ \A j \in 1 .. Len(s[X]) :
          LET key == s[X][j][1]
              owner == simple_get_node(st1, key)
          IN  /\ owner \in st1.nodes
              /\ owner \in DOMAIN s1
              /\ Holds(s1[owner], key, s[X][j][2])
    /\ \A n \in DOMAIN s \ {X} :
          /\ n \in DOMAIN s1
          /\ \A j \in 1 .. Len(s[n]) : Holds(s1[n], s[n][j][1], s[n][j][2])

\* C15: after remove_node_safe(X) for an X that had a storage entry, X has
\* no storage entry; every item that was stored on X is stored under the
\* node the ring's get_node now returns for its key, a node of the ring's
\* active set; and every other node's storage holds every item it held.
C15_RemoveNodeSafeMigrates ==
    [][\A X \in NodeIds :
          (RemoveNodeSafe(X) /\ X \in DOMAIN storage) =>
              Migrated(X, storage, storage', simple')]_vars

=============================================================================
